---- MODULE Spec2Model ----
(***************************************************************************)
(* A model of pybit/_helpers.py: the server-time delay cache               *)
(* (get_server_time_delay behind functools.lru_cache(maxsize=1)), request  *)
(* timestamp generation with its local-time fallback, the websocket        *)
(* endpoint matcher (identify_ws_method) and the connection-liveness       *)
(* aggregate (are_connections_connected).                                  *)
(*                                                                         *)
(* Time: the local clock `now` counts microseconds since the epoch, the    *)
(* resolution of time.time().  int(time.time() * 1e9) is then now * 1000   *)
(* nanoseconds and int(time.time() * 1000) is now \div 1000 milliseconds.  *)
(***************************************************************************)
EXTENDS Integers, Sequences, FiniteSets, TLC

VARIABLES now, cache, known, last, prev,
          wss_dictionary, ws_call,
          active_connections, conn_call,
          source, index_call,
          callers, race

clockVars == <<now, cache, known, last, prev>>
routerVars == <<wss_dictionary, ws_call>>
connVars == <<active_connections, conn_call>>
indexVars == <<source, index_call>>
raceVars == <<callers, race>>
vars == <<now, cache, known, last, prev, wss_dictionary, ws_call,
          active_connections, conn_call, source, index_call, callers, race>>

(***************************************************************************)
(* Bounds of the model.                                                    *)
(***************************************************************************)
\* microseconds the local clock may advance in total
MaxAdvance == 2
\* entries the endpoint table may hold
MaxTable == 2
\* connections the active-connection list may hold
MaxConnections == 3
\* records the list searched by find_index may hold
MaxRecords == 2
\* callers that call get_server_time_delay concurrently
MaxCallers == 3

(***************************************************************************)
(* Program constants.                                                      *)
(***************************************************************************)
\* @lru_cache(maxsize=1)
CacheMaxSize == 1
\* server_time_nano // 1000000
NanosPerMilli == 1000000

(***************************************************************************)
(* Inputs.                                                                 *)
(***************************************************************************)
Sessions == {"A", "B"}
NoSession == "None"
ClockStarts == {1999}
ClockSteps == {1}
\* server clock minus local clock at the instant of a fetch, in nanoseconds
Skews == {-999001, 500000000}

NoError == [type |-> "", msg |-> ""]
NoResponse == [kind |-> "none", retCode |-> 0, retMsg |-> "",
               hasTimeNano |-> FALSE, timeNano |-> 0, cause |-> NoError]

\* int(time.time() * 1e9) with the clock reading t
SystemTimeNano(t) == t * 1000

\* What session.get_server_time() may do when called at clock reading t:
\* answer with retCode 0 and the server's time, answer with an error code,
\* answer with retCode 0 and no usable timeNano, or raise.
FetchOutcomes(t) ==
    {[kind |-> "response", retCode |-> 0, retMsg |-> "OK",
      hasTimeNano |-> TRUE, timeNano |-> SystemTimeNano(t) + k,
      cause |-> NoError] : k \in Skews}
    \cup
    {[kind |-> "response", retCode |-> 10002, retMsg |-> "invalid request",
      hasTimeNano |-> FALSE, timeNano |-> 0, cause |-> NoError],
     [kind |-> "response", retCode |-> 0, retMsg |-> "OK",
      hasTimeNano |-> FALSE, timeNano |-> 0, cause |-> NoError],
     [kind |-> "raise", retCode |-> 0, retMsg |-> "",
      hasTimeNano |-> FALSE, timeNano |-> 0,
      cause |-> [type |-> "ConnectionError", msg |-> "timed out"]]}

Return(v) == [kind |-> "return", value |-> v, error |-> NoError]
Raise(e) == [kind |-> "raise", value |-> 0, error |-> e]

(***************************************************************************)
(* get_server_time_delay: the wrapped function body.                       *)
(***************************************************************************)
\* delay = server_time_nano - system_time_nano
DelayMutSign(server_time_nano, system_time_nano) ==
    system_time_nano - server_time_nano

Delay(server_time_nano, system_time_nano) ==
    server_time_nano - system_time_nano

\* The body of get_server_time_delay for the fetch outcome r, the system
\* clock reading t.  Every exception raised inside the try is re-raised.
ServerTimeDelayBody(r, t) ==
    IF r.kind = "raise" THEN Raise(r.cause)
    ELSE IF r.retCode = 0
         THEN IF r.hasTimeNano
              THEN Return(Delay(r.timeNano, SystemTimeNano(t)))
              ELSE Raise([type |-> "KeyError", msg |-> "timeNano"])
         ELSE Raise([type |-> "Exception",
                     msg |-> "Error retrieving Bybit server time: " \o r.retMsg])

(***************************************************************************)
(* functools.lru_cache(maxsize=CacheMaxSize): a sequence of <<key, value>> *)
(* pairs, least recently used first.                                       *)
(***************************************************************************)
CacheKeys(c) == {c[i][1] : i \in 1..Len(c)}
CacheIndex(c, s) == CHOOSE i \in 1..Len(c) : c[i][1] = s
CacheValue(c, s) == c[CacheIndex(c, s)][2]
Without(c, i) == SubSeq(c, 1, i - 1) \o SubSeq(c, i + 1, Len(c))

\* a hit moves the entry to the most recently used end
CacheTouch(c, s) == Without(c, CacheIndex(c, s)) \o <<c[CacheIndex(c, s)]>>

\* a stored result evicts the least recently used entries beyond maxsize
CacheStore(c, s, v) ==
    LET full == Append(c, <<s, v>>)
    IN  IF Len(full) > CacheMaxSize
        THEN SubSeq(full, Len(full) - CacheMaxSize + 1, Len(full))
        ELSE full

\* the cache after a miss whose call ended with result res: a raised
\* exception stores nothing
CacheAfterMissMutNoStore(c, s, res) == c

CacheAfterMissMutStoreFailure(c, s, res) == CacheStore(c, s, res.value)

CacheAfterMissMutClearOnFailure(c, s, res) ==
    IF res.kind = "return" THEN CacheStore(c, s, res.value) ELSE <<>>

CacheAfterMiss(c, s, res) ==
    IF res.kind = "return" THEN CacheStore(c, s, res.value) ELSE c

\* One call get_server_time_delay(s) through the cache c, where the session
\* would give fetch outcome r and the clock reads t:
\* the result, the cache afterwards and the number of fetches made.
GetServerTimeDelay(c, s, r, t) ==
    IF s \in CacheKeys(c)
    THEN [result |-> Return(CacheValue(c, s)), cache |-> CacheTouch(c, s),
          fetched |-> 0, resp |-> NoResponse]
    ELSE LET res == ServerTimeDelayBody(r, t)
         IN  [result |-> res, cache |-> CacheAfterMiss(c, s, res),
              fetched |-> 1, resp |-> r]

(***************************************************************************)
(* generate_req_timestamp and generate_timestamp.                          *)
(***************************************************************************)
\* get_current_utc_milliseconds(): int(time.time() * 1000)
CurrentUtcMillisecondsMutSeconds(t) == t \div 1000000

get_current_utc_milliseconds(t) == t \div 1000

\* generate_timestamp(): int(time.time() * 10**3)
generate_timestamp(t) == t \div 1000

\* server_time_nano // 1000000 (Python's //, which rounds down)
ToMilliseconds(server_time_nano) == server_time_nano \div NanosPerMilli

\* `if session:`
Truthy(session) == session # NoSession

\* Lines 46-56 once get_server_time_delay has ended with `res`, the clock
\* reading t2: the server-adjusted timestamp, or, the exception caught by
\* `except Exception`, the local one.
AfterDelayLookupMutPropagate(res, t2) ==
    IF res.kind = "return"
    THEN Return(ToMilliseconds(SystemTimeNano(t2) + res.value))
    ELSE res

AfterDelayLookup(res, t2) ==
    IF res.kind = "return"
    THEN Return(ToMilliseconds(SystemTimeNano(t2) + res.value))
    ELSE Return(get_current_utc_milliseconds(t2))

\* generate_req_timestamp(session) with the cache c: the delay lookup is
\* made at clock reading t, the timestamp is taken at clock reading t2.
GenerateReqTimestamp(c, session, r, t, t2) ==
    IF Truthy(session)
    THEN LET call == GetServerTimeDelay(c, session, r, t)
         IN  [result |-> AfterDelayLookup(call.result, t2),
              cache |-> call.cache, fetched |-> call.fetched,
              resp |-> call.resp, lookup |-> call.result, looked |-> TRUE]
    ELSE [result |-> Return(get_current_utc_milliseconds(t2)),
          cache |-> c, fetched |-> 0, resp |-> NoResponse,
          lookup |-> Return(0), looked |-> FALSE]

(***************************************************************************)
(* The clock component as a state machine.                                 *)
(***************************************************************************)
Unknown == [set |-> FALSE, delay |-> 0]
KnownOf(s) == IF s \in Sessions THEN known[s] ELSE Unknown

NoCall == [op |-> "none", session |-> NoSession, kind |-> "return",
           value |-> 0, error |-> NoError, fetched |-> 0,
           resp |-> NoResponse, at |-> 0, measuredAt |-> 0,
           looked |-> FALSE, lookup |-> Return(0), knownBefore |-> Unknown]

\* what the next call remembers of the call before it: of a
\* get_server_time_delay call its outcome, of a generate_req_timestamp call
\* the outcome of its delay lookup
NoSummary == [op |-> "none", session |-> NoSession, kind |-> "return",
              value |-> 0, fetched |-> 0]

Summary(call) ==
    IF call.op = "get_delay"
    THEN [op |-> call.op, session |-> call.session, kind |-> call.kind,
          value |-> call.value, fetched |-> call.fetched]
    ELSE IF call.op = "generate" /\ call.looked
         THEN [op |-> call.op, session |-> call.session,
               kind |-> call.lookup.kind, value |-> 0,
               fetched |-> call.fetched]
         ELSE NoSummary

ClockStart == CHOOSE m \in ClockStarts : \A k \in ClockStarts : k <= m

RouterIdle ==
    /\ wss_dictionary = <<>>
    /\ ws_call = [op |-> "none", target |-> <<>>, table |-> <<>>,
                  kind |-> "return", handler |-> 0,
                  error |-> NoError, examined |-> 0]

ConnIdle ==
    /\ active_connections = <<>>
    /\ conn_call = [op |-> "none", connections |-> <<>>, result |-> TRUE,
                    queried |-> <<>>]

IndexIdle ==
    /\ source = <<>>
    /\ index_call = [op |-> "none", source |-> <<>>,
                     target |-> [id |-> 0, price |-> 0], key |-> "",
                     kind |-> "return", value |-> 0, error |-> NoError]

RaceIdle ==
    /\ callers = <<>>
    /\ race = [fetches |-> 0, set |-> FALSE, delay |-> 0]

ClockInit ==
    /\ now \in ClockStarts
    /\ cache = <<>>
    /\ known = [s \in Sessions |-> Unknown]
    /\ last = NoCall
    /\ prev = NoSummary

Init == ClockInit /\ RouterIdle /\ ConnIdle /\ IndexIdle /\ RaceIdle

\* time passes between calls
Tick(dt) ==
    /\ now + dt <= ClockStart + MaxAdvance
    /\ now' = now + dt
    /\ UNCHANGED <<cache, known, last, prev, routerVars, connVars, indexVars, raceVars>>

\* a caller calls get_server_time_delay(s)
GetDelayCall(s, r) ==
    LET call == GetServerTimeDelay(cache, s, r, now)
    IN  /\ cache' = call.cache
        /\ known' = IF call.result.kind = "return"
                    THEN [known EXCEPT ![s] = [set |-> TRUE,
                                               delay |-> call.result.value]]
                    ELSE known
        /\ last' = [op |-> "get_delay", session |-> s,
                    kind |-> call.result.kind, value |-> call.result.value,
                    error |-> call.result.error, fetched |-> call.fetched,
                    resp |-> call.resp, at |-> now, measuredAt |-> now,
                    looked |-> TRUE, lookup |-> call.result,
                    knownBefore |-> known[s]]
        /\ prev' = Summary(last)
        /\ UNCHANGED <<now, routerVars, connVars, indexVars, raceVars>>

\* a caller calls generate_req_timestamp(session); dt passes between the
\* delay lookup and the reading of the clock for the timestamp
GenerateCall(session, r, dt) ==
    LET call == GenerateReqTimestamp(cache, session, r, now, now + dt)
    IN  /\ now + dt <= ClockStart + MaxAdvance
        /\ now' = now + dt
        /\ cache' = call.cache
        /\ known' = IF call.looked /\ call.lookup.kind = "return"
                    THEN [known EXCEPT ![session] =
                              [set |-> TRUE, delay |-> call.lookup.value]]
                    ELSE known
        /\ last' = [op |-> "generate", session |-> session,
                    kind |-> call.result.kind, value |-> call.result.value,
                    error |-> call.result.error, fetched |-> call.fetched,
                    resp |-> call.resp, at |-> now + dt, measuredAt |-> now,
                    looked |-> call.looked, lookup |-> call.lookup,
                    knownBefore |-> KnownOf(session)]
        /\ prev' = Summary(last)
        /\ UNCHANGED <<routerVars, connVars, indexVars, raceVars>>

\* a caller calls generate_timestamp()
LocalTimestampCall ==
    /\ last' = [NoCall EXCEPT !.op = "local",
                               !.value = generate_timestamp(now),
                               !.at = now]
    /\ prev' = Summary(last)
    /\ UNCHANGED <<now, cache, known, routerVars, connVars, indexVars, raceVars>>

Next ==
    \/ \E dt \in ClockSteps : Tick(dt)
    \/ \E s \in Sessions : \E r \in FetchOutcomes(now) : GetDelayCall(s, r)
    \/ \E session \in Sessions \cup {NoSession} :
           \E r \in FetchOutcomes(now) : \E dt \in {0} \cup ClockSteps :
               GenerateCall(session, r, dt)
    \/ LocalTimestampCall

Spec == Init /\ [][Next]_vars

(***************************************************************************)
(* identify_ws_method.  A URL string is a sequence of characters.          *)
(***************************************************************************)
\* the URLs the model draws from, by their parts
Schemes == {<<>>, <<"w", "s", "s", ":", "/", "/">>, <<"w", "s", ":", "/", "/">>}
Hosts == {<<"a", ".", "x">>, <<"b", ".", "x">>}
Paths == {<<"/", "s">>, <<"/", "l">>, <<"/", "s", "/">>, <<"/", "s", "?", "q">>}
UrlParts == [scheme : Schemes, host : Hosts, path : Paths]
Render(u) == u.scheme \o u.host \o u.path

\* strings with no host part: empty, starting with "/", starting with a blank
Hostless == {<<>>, <<"/", "s">>, <<" ", "a", ".", "x", "/", "s">>}

UrlStrings ==
    {Render(u) : u \in {v \in UrlParts :
        \/ v.path = <<"/", "s">> /\ v.host = <<"b", ".", "x">>
        \/ v.host = <<"a", ".", "x">> /\ v.scheme = <<"w", "s", "s", ":", "/", "/">>}}
    \cup Hostless

\* a handler is an opaque value: the model names the one bound by the k-th
\* insertion k, and None 0
NoHandler == 0

\* \s of the re module
Whitespace == {" ", "\t", "\n", "\r", "\f"}
WssPrefix == <<"w", "s", "s", ":", "/", "/">>

StartsWith(u, p) == Len(u) >= Len(p) /\ SubSeq(u, 1, Len(p)) = p

\* [^/\s]+ from position i: the number of characters it takes (greedy)
RECURSIVE HostRun(_, _)
HostRun(u, i) ==
    IF i > Len(u) \/ u[i] = "/" \/ u[i] \in Whitespace
    THEN 0
    ELSE 1 + HostRun(u, i + 1)

\* (.*) from position i: everything up to a line break
RECURSIVE DotStar(_, _)
DotStar(u, i) ==
    IF i > Len(u) \/ u[i] = "\n"
    THEN <<>>
    ELSE <<u[i]>> \o DotStar(u, i + 1)

\* re.compile("(wss://)?([^/\s]+)(.*)").match(u): the optional group is
\* tried first and given up when no host character follows it
GroupsFrom(u, i) ==
    LET n == HostRun(u, i)
    IN  [matched |-> TRUE,
         host |-> SubSeq(u, i, i + n - 1),
         path |-> DotStar(u, i + n)]

PathMatchMutWholeRest(u) ==
    IF HostRun(u, 1) >= 1
    THEN [matched |-> TRUE, host |-> <<>>, path |-> DotStar(u, 1)]
    ELSE [matched |-> FALSE, host |-> <<>>, path |-> <<>>]

PathMatch(u) ==
    IF StartsWith(u, WssPrefix) /\ HostRun(u, Len(WssPrefix) + 1) >= 1
    THEN GroupsFrom(u, Len(WssPrefix) + 1)
    ELSE IF HostRun(u, 1) >= 1
         THEN GroupsFrom(u, 1)
         ELSE [matched |-> FALSE, host |-> <<>>, path |-> <<>>]

AttributeError ==
    [type |-> "AttributeError",
     msg |-> "'NoneType' object has no attribute 'group'"]

\* the for loop of identify_ws_method from entry i on: .group(3) of a failed
\* match raises, an equal path returns the entry's value, the end of the
\* table returns None
\* the loop gone wrong in three ways: it gives up after one entry, it keeps
\* the last equal path instead of the first, it takes a path that only
\* starts with the input's for an equal one
WsLoopMutFirstOnly(input_wss_url_path, d, i) ==
    IF i > Len(d)
    THEN [kind |-> "return", handler |-> NoHandler, error |-> NoError,
          examined |-> Len(d)]
    ELSE LET m == PathMatch(d[i][1])
         IN  IF ~m.matched
             THEN [kind |-> "raise", handler |-> NoHandler,
                   error |-> AttributeError, examined |-> i]
             ELSE IF input_wss_url_path = m.path
                  THEN [kind |-> "return", handler |-> d[i][2],
                        error |-> NoError, examined |-> i]
                  ELSE [kind |-> "return", handler |-> NoHandler,
                        error |-> NoError, examined |-> i]

RECURSIVE WsLoopMutLastMatch(_, _, _)
WsLoopMutLastMatch(input_wss_url_path, d, i) ==
    IF i > Len(d)
    THEN [kind |-> "return", handler |-> NoHandler, error |-> NoError,
          examined |-> Len(d)]
    ELSE LET m == PathMatch(d[i][1])
             rest == WsLoopMutLastMatch(input_wss_url_path, d, i + 1)
         IN  IF ~m.matched
             THEN [kind |-> "raise", handler |-> NoHandler,
                   error |-> AttributeError, examined |-> i]
             ELSE IF rest.handler = NoHandler /\ input_wss_url_path = m.path
                  THEN [kind |-> "return", handler |-> d[i][2],
                        error |-> NoError, examined |-> Len(d)]
                  ELSE rest

RECURSIVE WsLoopMutPrefix(_, _, _)
WsLoopMutPrefix(input_wss_url_path, d, i) ==
    IF i > Len(d)
    THEN [kind |-> "return", handler |-> NoHandler, error |-> NoError,
          examined |-> Len(d)]
    ELSE LET m == PathMatch(d[i][1])
         IN  IF ~m.matched
             THEN [kind |-> "raise", handler |-> NoHandler,
                   error |-> AttributeError, examined |-> i]
             ELSE IF StartsWith(m.path, input_wss_url_path)
                  THEN [kind |-> "return", handler |-> d[i][2],
                        error |-> NoError, examined |-> i]
                  ELSE WsLoopMutPrefix(input_wss_url_path, d, i + 1)

RECURSIVE WsLoop(_, _, _)
WsLoop(input_wss_url_path, d, i) ==
    IF i > Len(d)
    THEN [kind |-> "return", handler |-> NoHandler, error |-> NoError,
          examined |-> Len(d)]
    ELSE LET m == PathMatch(d[i][1])
         IN  IF ~m.matched
             THEN [kind |-> "raise", handler |-> NoHandler,
                   error |-> AttributeError, examined |-> i]
             ELSE IF input_wss_url_path = m.path
                  THEN [kind |-> "return", handler |-> d[i][2],
                        error |-> NoError, examined |-> i]
                  ELSE WsLoop(input_wss_url_path, d, i + 1)

identify_ws_method(input_wss_url, d) ==
    LET m == PathMatch(input_wss_url)
    IN  IF ~m.matched
        THEN [kind |-> "raise", handler |-> NoHandler,
              error |-> AttributeError, examined |-> 0]
        ELSE WsLoop(m.path, d, 1)

\* a dict as the sequence of its items in insertion order
DictKeys(d) == {d[i][1] : i \in 1..Len(d)}
DictSetItem(d, k, v) ==
    IF k \in DictKeys(d)
    THEN [i \in 1..Len(d) |-> IF d[i][1] = k THEN <<k, v>> ELSE d[i]]
    ELSE Append(d, <<k, v>>)

NoWsCall == [op |-> "none", target |-> <<>>, table |-> <<>>,
             kind |-> "return", handler |-> NoHandler, error |-> NoError,
             examined |-> 0]

ClockIdle ==
    /\ now = ClockStart
    /\ cache = <<>>
    /\ known = [s \in Sessions |-> Unknown]
    /\ last = NoCall
    /\ prev = NoSummary

RouterInit == ClockIdle /\ RouterIdle /\ ConnIdle /\ IndexIdle /\ RaceIdle

\* the caller builds the table: wss_dictionary[url] = a new handler
DictSet(url) ==
    /\ url \notin DictKeys(wss_dictionary)
    /\ Len(wss_dictionary) < MaxTable
    /\ wss_dictionary' =
           DictSetItem(wss_dictionary, url, Len(wss_dictionary) + 1)
    /\ ws_call' = NoWsCall
    /\ UNCHANGED <<clockVars, connVars, indexVars,
                   raceVars>>

\* a caller calls identify_ws_method(target, wss_dictionary)
IdentifyCall(target) ==
    LET res == identify_ws_method(target, wss_dictionary)
    IN  /\ ws_call' = [op |-> "identify", target |-> target,
                       table |-> wss_dictionary, kind |-> res.kind,
                       handler |-> res.handler, error |-> res.error,
                       examined |-> res.examined]
        /\ UNCHANGED <<wss_dictionary, clockVars, connVars, indexVars,
                   raceVars>>

RouterNext ==
    \/ \E url \in UrlStrings : DictSet(url)
    \/ \E target \in UrlStrings : IdentifyCall(target)

SpecRouter == RouterInit /\ [][RouterNext]_vars

(***************************************************************************)
(* are_connections_connected.  A connection is what its is_connected()     *)
(* answers.                                                                *)
(***************************************************************************)
\* the for loop from connection i on: the result and the positions of the
\* connections whose is_connected() was called, in the order of the calls
RECURSIVE ConnLoop(_, _, _)
ConnLoop(conns, i, queried) ==
    IF i > Len(conns)
    THEN [result |-> TRUE, queried |-> queried]
    ELSE IF ~conns[i]
         THEN [result |-> FALSE, queried |-> Append(queried, i)]
         ELSE ConnLoop(conns, i + 1, Append(queried, i))

AreConnectedMutFirstOnly(conns) ==
    IF conns = <<>>
    THEN [result |-> TRUE, queried |-> <<>>]
    ELSE [result |-> conns[1], queried |-> <<1>>]

\* every connection is asked before the answers are looked at
AreConnectedMutQueryAll(conns) ==
    [result |-> \A i \in 1..Len(conns) : conns[i],
     queried |-> [i \in 1..Len(conns) |-> i]]

are_connections_connected(conns) == ConnLoop(conns, 1, <<>>)

NoConnCall == [op |-> "none", connections |-> <<>>, result |-> TRUE,
               queried |-> <<>>]

ConnInit == ClockIdle /\ RouterIdle /\ ConnIdle /\ IndexIdle /\ RaceIdle

\* a connection is opened, connected or not
OpenConnection(b) ==
    /\ Len(active_connections) < MaxConnections
    /\ active_connections' = Append(active_connections, b)
    /\ UNCHANGED <<conn_call, clockVars, routerVars, indexVars,
                   raceVars>>

\* a connection drops or comes back
SetConnected(i, b) ==
    /\ active_connections[i] # b
    /\ active_connections' = [active_connections EXCEPT ![i] = b]
    /\ UNCHANGED <<conn_call, clockVars, routerVars, indexVars,
                   raceVars>>

\* a caller calls are_connections_connected(active_connections)
AllConnectedCall ==
    LET res == are_connections_connected(active_connections)
    IN  /\ conn_call' = [op |-> "all_connected",
                         connections |-> active_connections,
                         result |-> res.result, queried |-> res.queried]
        /\ UNCHANGED <<active_connections, clockVars, routerVars, indexVars,
                   raceVars>>

ConnNext ==
    \/ \E b \in BOOLEAN : OpenConnection(b)
    \/ \E i \in 1..Len(active_connections) : \E b \in BOOLEAN : SetConnected(i, b)
    \/ AllConnectedCall

SpecConn == ConnInit /\ [][ConnNext]_vars

(***************************************************************************)
(* find_index.  A record is a dict with the keys "id" and "price".         *)
(***************************************************************************)
Records == [id : {1, 2}, price : {1, 2}]
RecordKeys == {"id", "price"}

StopIteration == [type |-> "StopIteration", msg |-> ""]

\* next(i for i, j in enumerate(source) if j[key] == target[key]) from the
\* i-th record on: Python counts the positions from 0
RECURSIVE FindFromMutOneBased(_, _, _, _)
FindFromMutOneBased(src, target, key, i) ==
    IF i > Len(src)
    THEN Raise(StopIteration)
    ELSE IF src[i][key] = target[key]
         THEN Return(i)
         ELSE FindFromMutOneBased(src, target, key, i + 1)

RECURSIVE FindFrom(_, _, _, _)
FindFrom(src, target, key, i) ==
    IF i > Len(src)
    THEN Raise(StopIteration)
    ELSE IF src[i][key] = target[key]
         THEN Return(i - 1)
         ELSE FindFrom(src, target, key, i + 1)

find_index(src, target, key) == FindFrom(src, target, key, 1)

IndexInit == ClockIdle /\ RouterIdle /\ ConnIdle /\ IndexIdle /\ RaceIdle

\* the caller's list grows by one record
AppendRecord(rec) ==
    /\ Len(source) < MaxRecords
    /\ source' = Append(source, rec)
    /\ index_call' = [op |-> "none", source |-> <<>>,
                      target |-> [id |-> 0, price |-> 0], key |-> "",
                      kind |-> "return", value |-> 0, error |-> NoError]
    /\ UNCHANGED <<clockVars, routerVars, connVars, raceVars>>

\* a caller calls find_index(source, target, key)
FindIndexCall(target, key) ==
    LET res == find_index(source, target, key)
    IN  /\ index_call' = [op |-> "find_index", source |-> source,
                          target |-> target, key |-> key,
                          kind |-> res.kind, value |-> res.value,
                          error |-> res.error]
        /\ UNCHANGED <<source, clockVars, routerVars, connVars, raceVars>>

IndexNext ==
    \/ \E rec \in Records : AppendRecord(rec)
    \/ \E target \in Records : \E key \in RecordKeys :
           FindIndexCall(target, key)

SpecIndex == IndexInit /\ [][IndexNext]_vars

(***************************************************************************)
(* Concurrent callers of get_server_time_delay, all with one session.      *)
(* lru_cache looks the key up under its lock, calls the function outside   *)
(* the lock and takes the lock again to store the result; a caller is      *)
(* idle, fetching (missed, about to call session.get_server_time()),       *)
(* storing (the function has ended) or done.                               *)
(***************************************************************************)
RaceSession == "A"

IdleCaller == [pc |-> "idle", session |-> NoSession, result |-> Return(0),
               fetched |-> 0, afterSuccess |-> FALSE]

\* the cache after the wrapped call ended with res: a key that another
\* caller stored in the meantime is left as it is
CacheAfterCallMutOverwrite(c, s, res) ==
    IF res.kind = "return"
    THEN IF s \in CacheKeys(c)
         THEN CacheStore(Without(c, CacheIndex(c, s)), s, res.value)
         ELSE CacheStore(c, s, res.value)
    ELSE c

CacheAfterCall(c, s, res) ==
    IF res.kind = "return"
    THEN IF s \in CacheKeys(c) THEN c ELSE CacheStore(c, s, res.value)
    ELSE c

RaceInit ==
    /\ ClockIdle /\ RouterIdle /\ ConnIdle /\ IndexIdle
    /\ callers = [t \in 1..MaxCallers |-> IdleCaller]
    /\ race = [fetches |-> 0, set |-> FALSE, delay |-> 0]

\* caller t enters get_server_time_delay(s): the cache lookup
StartCall(t, s) ==
    /\ callers[t].pc = "idle"
    /\ IF s \in CacheKeys(cache)
       THEN /\ callers' = [callers EXCEPT ![t] =
                   [pc |-> "done", session |-> s,
                    result |-> Return(CacheValue(cache, s)),
                    fetched |-> 0, afterSuccess |-> race.set]]
            /\ cache' = CacheTouch(cache, s)
       ELSE /\ callers' = [callers EXCEPT ![t] =
                   [pc |-> "fetching", session |-> s, result |-> Return(0),
                    fetched |-> 0, afterSuccess |-> race.set]]
            /\ cache' = cache
    /\ UNCHANGED <<race, now, known, last, prev, routerVars, connVars,
                   indexVars>>

\* caller t runs the function body: session.get_server_time() answers r
FetchStep(t, r) ==
    /\ callers[t].pc = "fetching"
    /\ callers' = [callers EXCEPT ![t] =
           [@ EXCEPT !.pc = "storing",
                     !.result = ServerTimeDelayBody(r, now),
                     !.fetched = @ + 1]]
    /\ race' = IF callers[t].session = RaceSession
               THEN [race EXCEPT !.fetches = @ + 1]
               ELSE race
    /\ UNCHANGED <<cache, now, known, last, prev, routerVars, connVars,
                   indexVars>>

\* caller t is back in lru_cache with the function's result and returns;
\* race remembers the first delay returned for RaceSession
FinishCall(t) ==
    /\ callers[t].pc = "storing"
    /\ cache' = CacheAfterCall(cache, callers[t].session, callers[t].result)
    /\ callers' = [callers EXCEPT ![t].pc = "done"]
    /\ race' = IF /\ callers[t].session = RaceSession
                  /\ callers[t].result.kind = "return"
                  /\ ~race.set
               THEN [race EXCEPT !.set = TRUE,
                                 !.delay = callers[t].result.value]
               ELSE race
    /\ UNCHANGED <<now, known, last, prev, routerVars, connVars, indexVars>>

RaceNext ==
    \/ \E t \in 1..MaxCallers : \E s \in Sessions : StartCall(t, s)
    \/ \E t \in 1..MaxCallers : \E r \in FetchOutcomes(now) : FetchStep(t, r)
    \/ \E t \in 1..MaxCallers : FinishCall(t)

SpecRace == RaceInit /\ [][RaceNext]_vars

(***************************************************************************)
(* The claims.                                                             *)
(***************************************************************************)
IsGetDelay(c) == c.op = "get_delay"
IsGenerate(c) == c.op = "generate"

\* the previous call and the last one are get_server_time_delay calls on
\* one session
TwoCallsOnOneSession ==
    IsGetDelay(prev) /\ IsGetDelay(last) /\ prev.session = last.session

\* C1: when get_server_time_delay(s) has returned a delay, the call of
\* get_server_time_delay(s) that follows it with no other call in between
\* returns the same delay, and the two calls together fetch the server time
\* at most once.
C1_CacheIdempotence ==
    (TwoCallsOnOneSession /\ prev.kind = "return") =>
        /\ last.kind = "return"
        /\ last.value = prev.value
        /\ prev.fetched + last.fetched <= 1

C1_Witness ==
    /\ TwoCallsOnOneSession
    /\ prev.kind = "return" /\ prev.fetched = 1
    /\ last.kind = "return" /\ last.fetched = 0
    /\ last.at > ClockStart

\* C2 as claimed: once get_server_time_delay(s) has succeeded, no later
\* get_server_time_delay(s) fetches the server time again, whatever other
\* sessions were used in between.
C2_NeverRecomputed ==
    (IsGetDelay(last) /\ last.knownBefore.set) => last.fetched = 0

\* C3 as claimed: once a delay is cached for a session, every later
\* generate_req_timestamp(session) uses that delay: it neither measures a
\* new one nor falls back to local time.
C3_SameDelayForever ==
    (IsGenerate(last) /\ last.knownBefore.set) =>
        /\ last.lookup.kind = "return"
        /\ last.lookup.value = last.knownBefore.delay
        /\ last.fetched = 0

FetchFailed(r) == r.kind = "raise" \/ (r.kind = "response" /\ r.retCode # 0)

\* C4: a fetch that raises or answers with a non-zero code makes
\* get_server_time_delay(s) raise, with the cause or with the server's
\* message; nothing is stored for s, so that the next
\* get_server_time_delay(s) fetches again.
C4_FailureNotCached ==
    /\ (IsGetDelay(last) /\ last.fetched = 1 /\ FetchFailed(last.resp)) =>
          /\ last.kind = "raise"
          /\ last.resp.kind = "raise" => last.error = last.resp.cause
          /\ last.resp.kind = "response" =>
                last.error.msg =
                    "Error retrieving Bybit server time: " \o last.resp.retMsg
    /\ (IsGetDelay(last) /\ last.kind = "raise") =>
          /\ last.fetched = 1
          /\ last.session \notin CacheKeys(cache)
    /\ (TwoCallsOnOneSession /\ prev.kind = "raise") => last.fetched = 1

C4_Witness ==
    /\ TwoCallsOnOneSession
    /\ prev.kind = "raise" /\ prev.fetched = 1
    /\ last.kind = "return" /\ last.fetched = 1
    /\ cache # <<>>

\* C5: generate_req_timestamp returns an integer and raises nothing, for
\* every session argument, every fetch outcome and every cache state.
C5_NeverFailsOutward ==
    IsGenerate(last) =>
        /\ last.kind = "return"
        /\ last.error = NoError
        /\ last.value \in Int

C5_Witness ==
    /\ IsGenerate(last)
    /\ last.looked /\ last.lookup.kind = "raise"
    /\ last.resp.kind = "raise"
    /\ last.kind = "return"
    /\ cache # <<>>

\* C6: with no session, or when the delay lookup raised,
\* generate_req_timestamp returns what generate_timestamp() returns at the
\* clock reading it took; with no session no fetch is made.
C6_FallbackIsLocalTimestamp ==
    /\ (IsGenerate(last) /\ (~last.looked \/ last.lookup.kind = "raise")) =>
          last.value = generate_timestamp(last.at)
    /\ (IsGenerate(last) /\ last.session = NoSession) =>
          ~last.looked /\ last.fetched = 0

C6_Witness ==
    /\ IsGenerate(last)
    /\ last.looked /\ last.lookup.kind = "raise"
    /\ last.resp.kind = "response" /\ last.resp.retCode # 0
    /\ last.at > last.measuredAt
    /\ last.value = 2

\* division that rounds toward zero
TruncDiv(a, b) == IF a >= 0 THEN a \div b ELSE -((-a) \div b)

\* C7: when the delay lookup returns d, generate_req_timestamp called with
\* the clock reading T returns (T in nanoseconds + d) divided by 1,000,000,
\* rounded toward zero; a freshly measured d is the server's time minus the
\* local time in nanoseconds at the measurement, a cached d is the one
\* measured earlier.
C7_ServerAdjustedTimestamp ==
    (IsGenerate(last) /\ last.looked /\ last.lookup.kind = "return") =>
        /\ last.value =
              TruncDiv(SystemTimeNano(last.at) + last.lookup.value, 1000000)
        /\ last.fetched = 1 =>
              last.lookup.value =
                  last.resp.timeNano - SystemTimeNano(last.measuredAt)
        /\ last.fetched = 0 => last.lookup.value = last.knownBefore.delay

C7_Witness ==
    /\ IsGenerate(last)
    /\ last.looked /\ last.lookup.kind = "return"
    /\ last.fetched = 0
    /\ last.lookup.value < 0
    /\ last.at > ClockStart
    /\ last.value = 1

(***************************************************************************)
(* The endpoint matcher's claims speak of a URL's PathComponent: the part  *)
(* after scheme and host of the URL the string was rendered from.          *)
(***************************************************************************)
PartsOf(str) == {u \in UrlParts : Render(u) = str}
IsUrl(str) == PartsOf(str) # {}
PathComponent(str) == (CHOOSE u \in PartsOf(str) : TRUE).path
SchemeOf(str) == (CHOOSE u \in PartsOf(str) : TRUE).scheme
WssOrNoScheme(str) == SchemeOf(str) \in {<<>>, WssPrefix}

IsIdentify(c) == c.op = "identify"
KeyAt(c, i) == c.table[i][1]
HandlerAt(c, i) == c.table[i][2]

\* the target and every key of the table are URLs with a host
AllUrls(c) ==
    /\ IsUrl(c.target)
    /\ \A i \in 1..Len(c.table) : IsUrl(KeyAt(c, i))

\* entry i is the first one whose key has the target's PathComponent
FirstWithPath(c, i) ==
    /\ PathComponent(KeyAt(c, i)) = PathComponent(c.target)
    /\ \A j \in 1..(i - 1) :
          PathComponent(KeyAt(c, j)) # PathComponent(c.target)

C9_NoMatchRaises ==
    (/\ IsIdentify(ws_call)
     /\ AllUrls(ws_call)
     /\ \A i \in 1..Len(ws_call.table) :
           PathComponent(KeyAt(ws_call, i)) # PathComponent(ws_call.target)) =>
        ws_call.kind = "raise"

IsAllConnected(c) == c.op = "all_connected"

\* C10: are_connections_connected returns True exactly when every
\* connection of the sequence answers is_connected() with True: True for
\* the empty sequence, False when some member is disconnected, wherever it
\* stands.
C10_AllConnectedIff ==
    IsAllConnected(conn_call) =>
        (conn_call.result <=>
            \A i \in 1..Len(conn_call.connections) : conn_call.connections[i])

C10_Witness ==
    /\ IsAllConnected(conn_call)
    /\ Len(conn_call.connections) >= 2
    /\ \A i \in 1..(Len(conn_call.connections) - 1) : conn_call.connections[i]
    /\ ~conn_call.connections[Len(conn_call.connections)]
    /\ ~conn_call.result

IsFindIndex(c) == c.op = "find_index"

\* the positions, counted from 0, of the records equal to the target at key
MatchingPositions(c) ==
    {i \in 0..(Len(c.source) - 1) : c.source[i + 1][c.key] = c.target[c.key]}

\* C11: find_index returns the smallest position (from 0) of a record equal
\* to the target at the key; with no such record, the empty list included,
\* it raises (StopIteration) to its caller and returns no index.
C11_FirstIndexOrRaise ==
    IsFindIndex(index_call) =>
        IF MatchingPositions(index_call) = {}
        THEN /\ index_call.kind = "raise"
             /\ index_call.error = StopIteration
        ELSE /\ index_call.kind = "return"
             /\ index_call.value \in MatchingPositions(index_call)
             /\ \A m \in MatchingPositions(index_call) : index_call.value <= m

C11_Witness ==
    /\ IsFindIndex(index_call)
    /\ Len(index_call.source) = 2
    /\ MatchingPositions(index_call) = {1}
    /\ index_call.value = 1
    /\ index_call.kind = "return"

\* the orders a table of n entries can be iterated in
Orders(n) == {p \in [1..n -> 1..n] : \A i, j \in 1..n : p[i] = p[j] => i = j}
Reordered(d, p) == [i \in 1..Len(d) |-> d[p[i]]]

\* the call's outcome is the one identify_ws_method has on every order of
\* the table
SameUnderEveryOrder(c) ==
    \A p \in Orders(Len(c.table)) :
        LET res == identify_ws_method(c.target, Reordered(c.table, p))
        IN  res.kind = c.kind /\ res.handler = c.handler

\* the path part identify_ws_method takes from a string
PathPart(str) == PathMatch(str).path
HasHostPart(str) == PathMatch(str).matched

\* C12 as claimed: with unique URL keys (a dict has no others) the result
\* is the same under every iteration order of the table.
C12_OrderIndependentUniqueKeys ==
    (IsIdentify(ws_call) /\ AllUrls(ws_call)) => SameUnderEveryOrder(ws_call)

\* C12, amended: when every key has a host part and no two keys have the
\* same path part, the result is the same under every iteration order of
\* the table.
C12_OrderIndependentUniquePaths ==
    (/\ IsIdentify(ws_call)
     /\ \A i \in 1..Len(ws_call.table) : HasHostPart(KeyAt(ws_call, i))
     /\ \A i, j \in 1..Len(ws_call.table) :
           PathPart(KeyAt(ws_call, i)) = PathPart(KeyAt(ws_call, j)) => i = j) =>
        SameUnderEveryOrder(ws_call)

C12_Witness ==
    /\ IsIdentify(ws_call)
    /\ Len(ws_call.table) = 2
    /\ \A i \in 1..2 : HasHostPart(KeyAt(ws_call, i))
    /\ PathPart(KeyAt(ws_call, 1)) # PathPart(KeyAt(ws_call, 2))
    /\ PathPart(KeyAt(ws_call, 2)) = PathPart(ws_call.target)
    /\ ws_call.handler = HandlerAt(ws_call, 2)

\* the entries whose key has the target's path part / PathComponent
PartMatches(c) ==
    {i \in 1..Len(c.table) : PathPart(KeyAt(c, i)) = PathPart(c.target)}
ComponentMatches(c) ==
    {i \in 1..Len(c.table) :
        PathComponent(KeyAt(c, i)) = PathComponent(c.target)}
First(S) == CHOOSE i \in S : \A j \in S : i <= j

C14_OnlyEqualPaths ==
    (IsIdentify(ws_call) /\ ws_call.handler # NoHandler) =>
        /\ ws_call.kind = "return"
        /\ \E i \in 1..Len(ws_call.table) : HandlerAt(ws_call, i) = ws_call.handler
        /\ \A i \in 1..Len(ws_call.table) :
              HandlerAt(ws_call, i) = ws_call.handler =>
                  /\ PathPart(KeyAt(ws_call, i)) = PathPart(ws_call.target)
                  /\ (IsUrl(KeyAt(ws_call, i)) /\ IsUrl(ws_call.target)) =>
                        PathComponent(KeyAt(ws_call, i)) =
                            PathComponent(ws_call.target)

C14_Witness ==
    /\ IsIdentify(ws_call)
    /\ ws_call.target = <<"w", "s", "s", ":", "/", "/", "a", ".", "x", "/", "s">>
    /\ {KeyAt(ws_call, i) : i \in 1..Len(ws_call.table)} =
          {<<"w", "s", "s", ":", "/", "/", "a", ".", "x", "/", "s", "/">>,
           <<"w", "s", "s", ":", "/", "/", "a", ".", "x", "/", "s", "?", "q">>}
    /\ ws_call.kind = "return"
    /\ ws_call.handler = NoHandler
    /\ ws_call.examined = 2

\* C19 as claimed: for every target string and every table,
\* identify_ws_method returns a handler of the table or reports that there
\* is no route; it fails in no other way, also for strings with no host
\* part.
C19_HandlerOrNoRoute ==
    IsIdentify(ws_call) =>
        \/ /\ ws_call.kind = "return"
           /\ \/ ws_call.handler = NoHandler
              \/ \E i \in 1..Len(ws_call.table) :
                     HandlerAt(ws_call, i) = ws_call.handler
        \/ /\ ws_call.kind = "raise"
           /\ ws_call.error.type = "NoMatchingEndpoint"

\* the position of the first disconnected connection, or the length of the
\* sequence when all are connected
LastQueried(conns) ==
    IF \A i \in 1..Len(conns) : conns[i]
    THEN Len(conns)
    ELSE CHOOSE i \in 1..Len(conns) :
             ~conns[i] /\ \A j \in 1..(i - 1) : conns[j]

\* C15: are_connections_connected calls is_connected() on the connections
\* in sequence order, once each, up to and including the first one that is
\* disconnected, and on none after it.
C15_ShortCircuitInOrder ==
    IsAllConnected(conn_call) =>
        conn_call.queried =
            [i \in 1..LastQueried(conn_call.connections) |-> i]

C15_Witness ==
    /\ IsAllConnected(conn_call)
    /\ conn_call.connections = <<TRUE, FALSE, TRUE>>
    /\ conn_call.queried = <<1, 2>>
    /\ ~conn_call.result

\* the call before the last one was made on the last one's session and its
\* fetch failed
FailureBefore ==
    /\ prev.op \in {"get_delay", "generate"}
    /\ prev.session = last.session
    /\ prev.kind = "raise"

\* C16 as claimed: after a fetch failure for a session no fetch is made
\* again: a later generate_req_timestamp for the session returns the local
\* timestamp, even if the server would now answer with code 0.
C16_NoRetryAfterFailure ==
    (IsGenerate(last) /\ FailureBefore) =>
        /\ last.fetched = 0
        /\ last.value = generate_timestamp(last.at)

\* C16, amended: a fetch failure leaves nothing behind: the next
\* generate_req_timestamp for the session fetches again, once; it returns
\* the local timestamp when that fetch fails too, and the server-adjusted
\* one when the server answers with code 0 and its time.
C16_RetryOnNextCall ==
    (IsGenerate(last) /\ FailureBefore) =>
        /\ last.fetched = 1
        /\ last.lookup.kind = "raise" =>
              last.value = generate_timestamp(last.at)
        /\ (/\ last.resp.kind = "response"
            /\ last.resp.retCode = 0
            /\ last.resp.hasTimeNano) =>
              /\ last.lookup.kind = "return"
              /\ last.value =
                    TruncDiv(SystemTimeNano(last.at) + last.resp.timeNano
                                 - SystemTimeNano(last.measuredAt), 1000000)

C16_Witness ==
    /\ IsGenerate(last)
    /\ FailureBefore
    /\ prev.op = "generate"
    /\ last.fetched = 1
    /\ last.lookup.kind = "return"
    /\ last.value # generate_timestamp(last.at)

\* C18: a get_server_time_delay call that raises leaves the cache as it
\* was, and a call on another session that follows it and finds its delay
\* in the cache returns that delay without a fetch.
C18_FailedCallKeepsCache ==
    [][/\ (IsGetDelay(last') /\ last'.kind = "raise") => cache' = cache
       /\ (/\ IsGetDelay(last) /\ last.kind = "raise"
           /\ IsGetDelay(last') /\ last'.session # last.session
           /\ last'.session \in CacheKeys(cache)) =>
             /\ last'.kind = "return"
             /\ last'.fetched = 0
             /\ last'.value = CacheValue(cache, last'.session)]_vars

C18_Witness ==
    /\ IsGetDelay(prev) /\ prev.kind = "raise" /\ prev.fetched = 1
    /\ IsGetDelay(last) /\ last.session # prev.session
    /\ last.kind = "return" /\ last.fetched = 0
    /\ last.knownBefore.set /\ last.value = last.knownBefore.delay

\* the callers of RaceSession that entered before any of its calls had
\* completed successfully, and those that entered afterwards
Racers == {t \in DOMAIN callers :
              /\ callers[t].session = RaceSession
              /\ ~callers[t].afterSuccess}
LateCallers == {t \in DOMAIN callers :
                   /\ callers[t].session = RaceSession
                   /\ callers[t].afterSuccess}
OtherSessionCalled ==
    \E t \in DOMAIN callers : callers[t].session \in Sessions \ {RaceSession}

RaceBounded ==
    /\ race.fetches <= Cardinality(Racers)
    /\ \A t \in DOMAIN callers : callers[t].fetched <= 1
LateCallersServedFromCache ==
    \A t \in LateCallers :
        /\ callers[t].pc = "done"
        /\ callers[t].fetched = 0
        /\ callers[t].result = Return(race.delay)

\* C17: with k callers racing for a session's first delay, the server time
\* is fetched at most k times, at most once per racing caller; every call
\* for that session that starts after one of them has returned a delay
\* returns that same delay from the cache, without a fetch.
C17_RaceBoundedThenCached ==
    RaceBounded /\ LateCallersServedFromCache

\* what the code does keep: one fetch per caller at most and, while no
\* other session has been used, the bound and the cached delay
RaceWithoutOtherSessions ==
    /\ \A t \in DOMAIN callers : callers[t].fetched <= 1
    /\ ~OtherSessionCalled => RaceBounded /\ LateCallersServedFromCache
RaceWithoutOtherSessionsSeen ==
    /\ race.fetches >= 2
    /\ ~OtherSessionCalled
    /\ \E t, u \in Racers :
          /\ callers[t].pc = "done" /\ callers[u].pc = "done"
          /\ callers[t].result.kind = "return"
          /\ callers[u].result.kind = "return"
          /\ callers[t].result.value # callers[u].result.value
    /\ LateCallers # {}
====
